---- MODULE Spec2Model ----
(***************************************************************************)
(* A model of xkcd_crawler.py: the XKCDCrawler class (get_latest_comic_    *)
(* number, get_comic_info, download_image, crawl_comic, crawl_range) and   *)
(* main().  One process runs at a time; the output directory outlives the  *)
(* process, so a behaviour is a sequence of program runs over one          *)
(* directory.  Text (titles, URLs, file names) is a sequence of one-       *)
(* character strings.  An optional value (Python's None) is a sequence of  *)
(* length at most one: <<>> is None, <<v>> is v.                            *)
(***************************************************************************)
EXTENDS Integers, Sequences, FiniteSets, TLC

\* ------------------------------------------------------------------ bounds
\* Comic numbers the model crawls: 1..MaxNum.
MaxNum == 2
\* The 8192-byte chunks an image body is streamed in.
ImgChunks == 1
\* The largest --max value main() is given.
MaxCap == 1

\* --------------------------------------------------------- program constants
\* The width of the zero-padded number in a file name ("{comic_num:04d}").
PadWidth == 4

Nums == 1..MaxNum
None == <<>>
Some(v) == <<v>>

\* ------------------------------------------------------------------- text
Digit(d) == <<"0", "1", "2", "3", "4", "5", "6", "7", "8", "9">>[d + 1]

RECURSIVE Str(_)
\* str(n) for n >= 0: the decimal digits of n.
Str(n) == IF n < 10 THEN <<Digit(n)>> ELSE Str(n \div 10) \o <<Digit(n % 10)>>

RECURSIVE ZeroFill(_, _)
ZeroFill(s, w) == IF Len(s) >= w THEN s ELSE ZeroFill(<<"0">> \o s, w)

\* f"{comic_num:04d}" for comic_num >= 0.
Pad4(n) == ZeroFill(Str(n), PadWidth)

\* s.replace(a, b) for one-character a and b.
Replace(s, a, b) == [i \in 1..Len(s) |-> IF s[i] = a THEN b ELSE s[i]]

\* title.replace(' ', '_').replace('/', '_')
Sanitize(title) == Replace(Replace(title, " ", "_"), "/", "_")

\* The least index i >= from with s[i] \in cs, or Len(s) + 1.
RECURSIVE FirstOf(_, _, _)
FirstOf(s, cs, from) ==
    IF from > Len(s) THEN Len(s) + 1
    ELSE IF s[from] \in cs THEN from
    ELSE FirstOf(s, cs, from + 1)

\* The greatest index i with s[i] = c, or 0 (str.rfind + 1).
RECURSIVE LastOf(_, _, _)
LastOf(s, c, upto) ==
    IF upto = 0 THEN 0
    ELSE IF s[upto] = c THEN upto
    ELSE LastOf(s, c, upto - 1)

\* urlparse(url).path of "scheme://netloc/path?query#fragment": the scheme
\* ends at the first ":", the netloc runs from "//" to the next "/", "?" or
\* "#", and the path runs to the next "?" or "#".
UrlPath(url) ==
    LET colon == FirstOf(url, {":"}, 1)
        rest  == IF colon <= Len(url) /\ FirstOf(url, {"/", "?", "#"}, 1) > colon
                 THEN SubSeq(url, colon + 1, Len(url)) ELSE url
        hasNet == Len(rest) >= 2 /\ rest[1] = "/" /\ rest[2] = "/"
        start == IF hasNet THEN FirstOf(rest, {"/", "?", "#"}, 3) ELSE 1
        stop  == FirstOf(rest, {"?", "#"}, start)
    IN  SubSeq(rest, start, stop - 1)

\* os.path.splitext(p)[1]: from the last "." of the last path component, when
\* some character other than "." precedes it in that component.
SplitExt(p) ==
    LET sep == LastOf(p, "/", Len(p))
        dot == LastOf(p, ".", Len(p))
    IN  IF dot > sep /\ \E i \in (sep + 1)..(dot - 1) : p[i] # "."
        THEN SubSeq(p, dot, Len(p)) ELSE <<>>

\* file_extension = os.path.splitext(parsed_url.path)[1] or '.png'
FileExtension(image_url) ==
    LET ext == SplitExt(UrlPath(image_url))
    IN  IF ext = <<>> THEN <<".", "p", "n", "g">> ELSE ext

Filename_no_separator(n, title, image_url) ==
    Pad4(n) \o Sanitize(title) \o FileExtension(image_url)

\* filename = f"{comic_num:04d}_{sanitized title}{file_extension}"
Filename(n, title, image_url) ==
    Pad4(n) \o <<"_">> \o Sanitize(title) \o FileExtension(image_url)

\* metadata_file = f"{comic_num:04d}_metadata.json"
MetadataFile(n) ==
    Pad4(n) \o <<"_", "m", "e", "t", "a", "d", "a", "t", "a", ".", "j", "s", "o", "n">>

\* f"comic_{comic_num}", the default of comic_info.get('safe_title', ...)
DefaultTitle(n) == <<"c", "o", "m", "i", "c", "_">> \o Str(n)

\* --------------------------------------------------------------- upstream
UrlJpg == <<"h", ":", "/", "/", "x", "/", "a", ".", "j", "p", "g">>
TitleAB == <<"A", " ", "b">>
AltText == <<"t">>

\* The JSON bodies the per-comic endpoint serves in this model: a full record,
\* and one without the 'img' field.
FullRecord == [img |-> Some(UrlJpg), safe_title |-> Some(TitleAB), alt |-> Some(AltText)]
NoImgRecord == [img |-> None, safe_title |-> Some(TitleAB), alt |-> None]
Records == {FullRecord, NoImgRecord}

\* What the service holds for each number: None (the endpoint answers 404) or
\* a record.  It does not change during a behaviour.
Upstreams == [Nums -> {None} \cup {Some(r) : r \in Records}]

\* data['num'] of the latest-comic endpoint.
LatestNum == MaxNum

\* How one info request can end: the upstream's own answer, or a failure of
\* this request: "http_error" is a non-2xx status other than 404, "timeout"
\* any exception of the `except Exception` branch (a transport error, a body
\* that is not JSON).
InfoOutcomes(up, n) ==
    (IF up[n] = None THEN {"404"} ELSE {"ok"}) \cup {"http_error", "timeout"}

\* How the latest-number request can end.
LatestOutcomes == {"ok", "http_error", "timeout", "bad_body"}

\* ---------------------------------------------------------------- results
\* The dict crawl_comic returns on failure.
Failure(n, error) ==
    [success |-> FALSE, comic_num |-> n, error |-> error, filename |-> <<>>,
     title |-> <<>>, alt_text |-> <<>>, skipped |-> FALSE]

Success_always_skipped(n, name, title, alt, skip) ==
    [success |-> TRUE, comic_num |-> n, error |-> "", filename |-> name,
     title |-> title, alt_text |-> alt, skipped |-> TRUE]

\* The dict crawl_comic returns on success.
Success(n, name, title, alt, skip) ==
    [success |-> TRUE, comic_num |-> n, error |-> "", filename |-> name,
     title |-> title, alt_text |-> alt, skipped |-> skip]

NoResult == Failure(0, "")

\* ------------------------------------------------------------------ files
\* A file holds `written` of the `total` parts of its content.
ImageContent(url, k) ==
    [kind |-> "image", payload |-> <<url>>, written |-> k, total |-> ImgChunks]

MetadataContent_raw_title(n, title, alt, url, name, k) ==
    [kind |-> "metadata",
     payload |-> <<Str(n), title, alt, url, Pad4(n) \o <<"_">> \o title \o FileExtension(url)>>,
     written |-> k, total |-> 1]

\* json.dump of the metadata dict: one write of the whole text.
MetadataContent(n, title, alt, url, name, k) ==
    [kind |-> "metadata", payload |-> <<Str(n), title, alt, url, name>>,
     written |-> k, total |-> 1]

Complete(c) == c.written = c.total

Exists_never(fs, name) == FALSE

\* filepath.exists()
Exists(fs, name) == name \in DOMAIN fs

\* open(path, 'w') followed by writes: the path now holds content c.
Put(fs, name, c) == [f \in (DOMAIN fs) \cup {name} |-> IF f = name THEN c ELSE fs[f]]

EmptyDir == [f \in {} |-> 0]

\* ------------------------------------------------------------------ state
VARIABLES
    upstream,    \* the service: number -> None or its record
    files,       \* the output directory: file name -> content
    pc,          \* where the process is; "exit" as it ends, "stopped" between runs
    exit,        \* how the process ends: "none" (running), "ok", "exception"
    args,        \* the parsed command line of the running process
    end,         \* crawl_range's end, once known
    comic_num,   \* the number being crawled
    successful, failed, skipped,   \* crawl_range's counters
    lookup,      \* how the latest-number request ended, "none" before it
    info,        \* how this call's info request ended, "none" before it
    io,          \* how this call's later requests and file operations ended
    filename,    \* this call's derived file name
    result,      \* what crawl_comic returned
    reqs,        \* the HTTP requests of this call, in order
    log,         \* the lines this call printed, in order
    n_req,       \* HTTP requests issued by this process
    n_sleep,     \* time.sleep calls made by this process
    n_calls,     \* crawl_comic calls entered by this process
    files0,      \* the output directory when this process started
    last_call,   \* the previous crawl_comic call: its number, outcome and result
    summary      \* the counts crawl_range printed at its end, or None

vars == <<upstream, files, pc, exit, args, end, comic_num, successful, failed,
          skipped, lookup, info, io, filename, result, reqs, log, n_req, n_sleep, n_calls,
          files0, last_call, summary>>

NoCall == [comic_num |-> 0, info |-> "none", downloaded |-> FALSE,
           raised |-> FALSE, log |-> <<>>, result |-> NoResult]

\* comic_info.get('img'): <<>> stands for None and for the empty string, which
\* `not image_url` treats alike.
ImageUrlOf_or_default(rec) ==
    IF rec.img = None \/ rec.img[1] = <<>> THEN UrlJpg ELSE rec.img[1]

ImageUrlOf(rec) == IF rec.img = None THEN <<>> ELSE rec.img[1]
\* comic_info.get('safe_title', f"comic_{comic_num}")
TitleOf(rec, n) == IF rec.safe_title = None THEN DefaultTitle(n) ELSE rec.safe_title[1]
\* comic_info.get('alt', '')
AltTextOf(rec) == IF rec.alt = None THEN <<>> ELSE rec.alt[1]

\* The record get_comic_info returned to the running call, and its fields.
ComicInfo == upstream[comic_num][1]
ImageUrl == ImageUrlOf(ComicInfo)
Title == TitleOf(ComicInfo, comic_num)
AltOf == AltTextOf(ComicInfo)

Init ==
    /\ upstream \in Upstreams
    /\ files = EmptyDir
    /\ pc = "stopped"
    /\ exit = "none"
    /\ args = [single |-> None, start |-> 1, end |-> None, max |-> None]
    /\ end = None
    /\ comic_num = 0
    /\ successful = 0 /\ failed = 0 /\ skipped = 0
    /\ lookup = "none"
    /\ info = "none"
    /\ io = <<>>
    /\ filename = <<>>
    /\ result = NoResult
    /\ reqs = <<>>
    /\ log = <<>>
    /\ n_req = 0 /\ n_sleep = 0 /\ n_calls = 0
    /\ files0 = EmptyDir
    /\ last_call = NoCall
    /\ summary = None

\* ------------------------------------------------------------------- main
\* The command lines main() is run with: --single n, or a range.
SingleArgs == {[single |-> Some(n), start |-> 1, end |-> None, max |-> None] : n \in Nums}
RangeArgs ==
    [single : {None}, start : Nums,
     end : {None} \cup {Some(e) : e \in Nums},
     max : {None} \cup {Some(m) : m \in 0..MaxCap}]

\* What the call just finished leaves for the next one to be compared with.
ThisCall(isRaised) ==
    [comic_num |-> comic_num, info |-> info,
     downloaded |-> isRaised \/ (result.success /\ ~result.skipped),
     raised |-> isRaised, log |-> log,
     result |-> IF isRaised THEN NoResult ELSE result]

\* crawl_comic is entered for number n (line 113).
EnterCrawlComic(n) ==
    /\ comic_num' = n
    /\ n_calls' = n_calls + 1
    /\ info' = "none" /\ io' = <<>> /\ filename' = <<>> /\ result' = NoResult
    /\ reqs' = <<>> /\ log' = <<>>

\* main(): parse the arguments, construct the crawler, and enter crawl_comic
\* (--single) or crawl_range.
Main ==
    /\ pc = "stopped"
    /\ \E a \in SingleArgs \cup RangeArgs :
          /\ args' = a
          /\ IF a.single # None
             THEN /\ pc' = "crawl_comic"
                  /\ n_calls' = 1 /\ comic_num' = a.single[1]
             ELSE /\ pc' = "crawl_range"
                  /\ n_calls' = 0 /\ comic_num' = 0
    /\ UNCHANGED <<upstream, files, exit, end, successful, failed, skipped,
                   lookup, info, io, filename, result, reqs, log, n_req,
                   n_sleep, files0, last_call, summary>>

\* main() after crawl_comic returned in --single mode: print and exit.
MainSingleDone ==
    /\ pc = "return" /\ args.single # None
    /\ pc' = "exit" /\ exit' = "ok"
    /\ last_call' = ThisCall(FALSE)
    /\ UNCHANGED <<upstream, files, args, end, comic_num, successful, failed,
                   skipped, lookup, info, io, filename, result, reqs, log,
                   n_req, n_sleep, n_calls, files0, summary>>

\* The process ends: its memory is gone, the output directory stays.
ProcessExit ==
    /\ pc = "exit"
    /\ pc' = "stopped" /\ exit' = "none"
    /\ args' = [single |-> None, start |-> 1, end |-> None, max |-> None]
    /\ end' = None /\ comic_num' = 0
    /\ successful' = 0 /\ failed' = 0 /\ skipped' = 0
    /\ lookup' = "none" /\ info' = "none" /\ io' = <<>>
    /\ filename' = <<>> /\ result' = NoResult
    /\ reqs' = <<>> /\ log' = <<>>
    /\ n_req' = 0 /\ n_sleep' = 0 /\ n_calls' = 0
    /\ files0' = files /\ summary' = None
    /\ UNCHANGED <<upstream, files, last_call>>

\* ------------------------------------------------------------ crawl_range
GetLatestComicNumber_zero(o) == IF o = "ok" THEN Some(LatestNum) ELSE Some(0)

\* What get_latest_comic_number returns when its request ends as o: data['num'],
\* or None after any exception (lines 43-50).
GetLatestComicNumber(o) == IF o = "ok" THEN Some(LatestNum) ELSE None

\* crawl_range down to the loop: the latest-number lookup when end is None
\* (with the return when it fails), and the counters' initialisation.
CrawlRangeBegin ==
    /\ pc = "crawl_range"
    /\ IF args.end = None
       THEN \E o \in LatestOutcomes :
              LET latest == GetLatestComicNumber(o) IN
              /\ lookup' = o
              /\ n_req' = n_req + 1
              /\ reqs' = <<<<"latest">>>>
              /\ log' = IF o = "ok" THEN <<>>
                        ELSE <<"Error getting latest comic number">>
              /\ IF latest = None
                 THEN /\ pc' = "exit" /\ exit' = "ok"
                      /\ UNCHANGED <<end, comic_num>>
                 ELSE /\ end' = latest /\ pc' = "loop"
                      /\ comic_num' = args.start
                      /\ UNCHANGED exit
       ELSE /\ end' = args.end /\ pc' = "loop"
            /\ comic_num' = args.start
            /\ UNCHANGED <<lookup, n_req, reqs, log, exit>>
    /\ UNCHANGED <<upstream, files, args, successful, failed, skipped, info, io,
                   filename, result, n_sleep, n_calls, files0, last_call, summary>>

RangeExhausted_exclusive(n, e) == n >= e

\* `range(start, end + 1)` has no number left at n.
RangeExhausted(n, e) == n > e

CapReached_off_by_one(max, count) == max # None /\ max[1] # 0 /\ count > max[1]

\* `max_comics and successful >= max_comics`
CapReached(max, count) == max # None /\ max[1] # 0 /\ count >= max[1]

\* The head of `for comic_num in range(start, end + 1)` with the cap check: the
\* loop ends (exhausted, or break) with the summary printed, or crawl_comic is
\* called.
LoopHead ==
    /\ pc = "loop"
    /\ IF RangeExhausted(comic_num, end[1]) \/ CapReached(args.max, successful)
       THEN /\ pc' = "exit" /\ exit' = "ok"
            /\ summary' = Some(<<successful, skipped, failed>>)
            /\ UNCHANGED <<comic_num, n_calls, info, io, filename, result, reqs,
                           log>>
       ELSE /\ pc' = "crawl_comic"
            /\ EnterCrawlComic(comic_num)
            /\ UNCHANGED <<exit, summary>>
    /\ UNCHANGED <<upstream, files, args, end, successful, failed, skipped,
                   lookup, n_req, n_sleep, files0, last_call>>

ShouldSleep_always(n, e) == TRUE

\* `if comic_num < end`
ShouldSleep(n, e) == n < e

Count_skip_is_success(res, c) ==
    IF res.success
    THEN IF res.skipped THEN <<c[1] + 1, c[2] + 1, c[3]>> ELSE <<c[1] + 1, c[2], c[3]>>
    ELSE <<c[1], c[2], c[3] + 1>>

\* The counters <<successful, skipped, failed>> after result res is counted
\* (lines 208-214).
Count(res, c) ==
    IF res.success
    THEN IF res.skipped THEN <<c[1], c[2] + 1, c[3]>> ELSE <<c[1] + 1, c[2], c[3]>>
    ELSE <<c[1], c[2], c[3] + 1>>

\* The loop body after crawl_comic returned: count the result, sleep.
CountResult ==
    /\ pc = "return" /\ args.single = None
    /\ LET c == Count(result, <<successful, skipped, failed>>) IN
          successful' = c[1] /\ skipped' = c[2] /\ failed' = c[3]
    /\ n_sleep' = IF ShouldSleep(comic_num, end[1]) THEN n_sleep + 1 ELSE n_sleep
    /\ comic_num' = comic_num + 1
    /\ pc' = "loop"
    /\ last_call' = ThisCall(FALSE)
    /\ UNCHANGED <<upstream, files, exit, args, end, lookup, info, io, filename,
                   result, reqs, log, n_req, n_calls, files0, summary>>

\* ------------------------------------------------------------ crawl_comic
\* What get_comic_info prints when the request ends as o (lines 67-76).
InfoErrorLine(o) ==
    CASE o = "404" -> "Comic not found (404)"
      [] o = "http_error" -> "HTTP error for comic"
      [] OTHER -> "Error getting comic info"

InfoFailureReason_by_kind(o) ==
    IF o = "404" THEN "Comic not found" ELSE "Could not fetch comic info"

\* The error crawl_comic returns when get_comic_info returned None (line 118).
InfoFailureReason(o) == "Could not fetch comic info"

\* crawl_comic down to the download: the info request, the image URL check,
\* the file name and the existence check (lines 113-144).
CrawlComicFetch ==
    /\ pc = "crawl_comic"
    /\ \E o \in InfoOutcomes(upstream, comic_num) :
          /\ info' = o
          /\ n_req' = n_req + 1
          /\ reqs' = Append(reqs, <<"info", Str(comic_num)>>)
          /\ IF o # "ok"
             THEN /\ log' = <<"Crawling comic", InfoErrorLine(o)>>
                  /\ result' = Failure(comic_num, InfoFailureReason(o))
                  /\ pc' = "return"
                  /\ UNCHANGED filename
             ELSE IF ImageUrl = <<>>
             THEN /\ log' = <<"Crawling comic">>
                  /\ result' = Failure(comic_num, "No image URL found")
                  /\ pc' = "return"
                  /\ UNCHANGED filename
             ELSE LET name == Filename(comic_num, Title, ImageUrl) IN
                  /\ filename' = name
                  /\ IF Exists(files, name)
                     THEN /\ log' = <<"Crawling comic", "Image already exists">>
                          /\ result' = Success(comic_num, name, Title, AltOf, TRUE)
                          /\ pc' = "return"
                     ELSE /\ log' = <<"Crawling comic">>
                          /\ pc' = "download_image"
                          /\ UNCHANGED result
    /\ UNCHANGED <<upstream, files, exit, args, end, comic_num, successful,
                   failed, skipped, lookup, io, n_sleep, n_calls, files0,
                   last_call, summary>>

\* crawl_comic when download_image returned False (lines 99-101, 173-174).
DownloadFailed ==
    /\ log' = Append(log, "Error downloading")
    /\ result' = Failure(comic_num, "Failed to download image")
    /\ pc' = "return"

\* download_image down to the open file: the image request, its status, and
\* open(filepath, 'wb'), which creates the file empty (lines 89-94).
DownloadImage ==
    /\ pc = "download_image"
    /\ n_req' = n_req + 1
    /\ reqs' = Append(reqs, <<"image", ImageUrl>>)
    /\ \E o \in {"request_error", "open_error", "opened"} :
          /\ io' = Append(io, o)
          /\ IF o = "opened"
             THEN /\ files' = Put(files, filename, ImageContent(ImageUrl, 0))
                  /\ pc' = "iter_content"
                  /\ UNCHANGED <<log, result>>
             ELSE /\ DownloadFailed
                  /\ UNCHANGED files
    /\ UNCHANGED <<upstream, exit, args, end, comic_num, successful, failed,
                   skipped, lookup, info, filename, n_sleep, n_calls, files0,
                   last_call, summary>>

\* One turn of `for chunk in response.iter_content(...)`: the next chunk is
\* written, or the stream (or the write) raises and download_image returns
\* False with the file left as it is; after the last chunk the file is closed
\* and download_image returns True (lines 95-101).
WriteChunk ==
    /\ pc = "iter_content"
    /\ \E o \in {"chunk", "error"} :
          /\ io' = Append(io, o)
          /\ IF o = "chunk"
             THEN LET k == files[filename].written + 1 IN
                  /\ files' = Put(files, filename, ImageContent(ImageUrl, k))
                  /\ IF k = ImgChunks
                     THEN /\ pc' = "save_metadata"
                          /\ log' = Append(log, "Downloaded")
                     ELSE /\ pc' = "iter_content"
                          /\ UNCHANGED log
                  /\ UNCHANGED result
             ELSE /\ DownloadFailed
                  /\ UNCHANGED files
    /\ UNCHANGED <<upstream, exit, args, end, comic_num, successful, failed,
                   skipped, lookup, info, filename, reqs, n_req, n_sleep,
                   n_calls, files0, last_call, summary>>

\* An exception no frame catches: it leaves crawl_comic, crawl_range and
\* main(), and the process ends with a traceback.
Uncaught ==
    /\ pc' = "exit" /\ exit' = "exception"
    /\ last_call' = ThisCall(TRUE)

\* open(metadata_file, 'w'): the file is created (or truncated) empty, or open
\* raises (lines 161-162).
SaveMetadata ==
    /\ pc = "save_metadata"
    /\ \E o \in {"opened", "error"} :
          /\ io' = Append(io, o)
          /\ IF o = "opened"
             THEN /\ files' = Put(files, MetadataFile(comic_num),
                                  MetadataContent(comic_num, Title, AltOf, ImageUrl,
                                                  filename, 0))
                  /\ pc' = "json_dump"
                  /\ UNCHANGED <<exit, last_call>>
             ELSE /\ Uncaught
                  /\ UNCHANGED files
    /\ UNCHANGED <<upstream, args, end, comic_num, successful, failed, skipped,
                   lookup, info, filename, result, reqs, log, n_req, n_sleep,
                   n_calls, files0, summary>>

\* json.dump into the open file and the return of the success dict, or the
\* write raises (lines 163-172).
JsonDump ==
    /\ pc = "json_dump"
    /\ \E o \in {"written", "error"} :
          /\ io' = Append(io, o)
          /\ IF o = "written"
             THEN /\ files' = Put(files, MetadataFile(comic_num),
                                  MetadataContent(comic_num, Title, AltOf, ImageUrl,
                                                  filename, 1))
                  /\ result' = Success(comic_num, filename, Title, AltOf, FALSE)
                  /\ pc' = "return"
                  /\ UNCHANGED <<exit, last_call>>
             ELSE /\ Uncaught
                  /\ UNCHANGED <<files, result>>
    /\ UNCHANGED <<upstream, args, end, comic_num, successful, failed, skipped,
                   lookup, info, filename, reqs, log, n_req, n_sleep, n_calls,
                   files0, summary>>

\* The number of leading "chunk" entries of os, at most ImgChunks.
RECURSIVE ChunksWritten(_, _)
ChunksWritten(os, k) ==
    IF k < ImgChunks /\ Len(os) > k /\ os[k + 1] = "chunk"
    THEN ChunksWritten(os, k + 1) ELSE k

\* crawl_comic(n) as one step: the requests it makes, the directory it leaves
\* and what it returns (or that it raises), from the directory fs it starts in,
\* the upstream up, and the way its info request (o) and its later requests
\* and file operations (os, in order) end.
CrawlComicRun(n, fs, up, o, os) ==
    LET rec == up[n][1]
        url == ImageUrlOf(rec)
        title == TitleOf(rec, n)
        alt == AltTextOf(rec)
        name == Filename(n, title, url)
        infoReq == <<"info", Str(n)>>
        imgReq == <<"image", url>>
        k == ChunksWritten(Tail(os), 0)
        image == Put(fs, name, ImageContent(url, k))
        meta(w) == Put(image, MetadataFile(n),
                       MetadataContent(n, title, alt, url, name, w))
        Out(rs, dir, res, exc) ==
            [reqs |-> rs, files |-> dir, result |-> res, raised |-> exc]
    IN  IF o # "ok"
        THEN Out(<<infoReq>>, fs, Failure(n, InfoFailureReason(o)), FALSE)
        ELSE IF url = <<>>
        THEN Out(<<infoReq>>, fs, Failure(n, "No image URL found"), FALSE)
        ELSE IF Exists(fs, name)
        THEN Out(<<infoReq>>, fs, Success(n, name, title, alt, TRUE), FALSE)
        ELSE IF os[1] # "opened"
        THEN Out(<<infoReq, imgReq>>, fs, Failure(n, "Failed to download image"), FALSE)
        ELSE IF k < ImgChunks
        THEN Out(<<infoReq, imgReq>>, image, Failure(n, "Failed to download image"), FALSE)
        ELSE IF os[k + 2] # "opened"
        THEN Out(<<infoReq, imgReq>>, image, NoResult, TRUE)
        ELSE IF os[k + 3] # "written"
        THEN Out(<<infoReq, imgReq>>, meta(0), NoResult, TRUE)
        ELSE Out(<<infoReq, imgReq>>, meta(1), Success(n, name, title, alt, FALSE), FALSE)

\* ------------------------------------------------------------------- spec
Next ==
    \/ Main
    \/ MainSingleDone
    \/ ProcessExit
    \/ CrawlRangeBegin
    \/ LoopHead
    \/ CountResult
    \/ CrawlComicFetch
    \/ DownloadImage
    \/ WriteChunk
    \/ SaveMetadata
    \/ JsonDump

Spec == Init /\ [][Next]_vars

\* ------------------------------------------------------- file names alone
\* The file-name derivation over titles and image URLs at large: crawl_comic is
\* run once, in --single mode, on either of two comics and followed to the end
\* of its existence check.
\* The longest safe_title drawn.
MaxTitleLen == 2

\* The characters titles are made of: the two that are replaced, and a digit.
TitleChars == {" ", "/", "5"}

RECURSIVE SeqsUpTo(_, _)
\* The sequences over cs of length at most k.
SeqsUpTo(cs, k) ==
    IF k = 0 THEN {<<>>}
    ELSE LET shorter == SeqsUpTo(cs, k - 1)
         IN  shorter \cup {Append(t, c) : t \in shorter, c \in cs}

Titles == SeqsUpTo(TitleChars, MaxTitleLen)

\* Image URLs: with an extension, without one, with a space in the extension,
\* and with a query after the path.
UrlNoExt == <<"h", ":", "/", "/", "x", "/", "b">>
UrlSpaceExt == <<"h", ":", "/", "/", "x", "/", "a", ".", "j", " ", "g">>
UrlQuery == <<"h", ":", "/", "/", "x", "/", "a", ".", "p", "?", "b", ".", "c">>
NameUrls == {UrlJpg, UrlNoExt, UrlSpaceExt, UrlQuery}

\* Comic numbers of four digits or fewer, and of more.
NameNums == {1, 1234, 12345}

\* Records with an image URL; safe_title is absent or one of Titles.
NameRecords ==
    [img : {Some(u) : u \in NameUrls},
     safe_title : {None} \cup {Some(t) : t \in Titles},
     alt : {None}]

\* The service holds two comics.
NameUpstreams ==
    UNION {[pair -> {Some(r) : r \in NameRecords}] :
              pair \in {p \in SUBSET NameNums : Cardinality(p) = 2}}

InitNames ==
    /\ upstream \in NameUpstreams
    /\ files = EmptyDir
    /\ pc = "stopped"
    /\ exit = "none"
    /\ args = [single |-> None, start |-> 1, end |-> None, max |-> None]
    /\ end = None
    /\ comic_num = 0
    /\ successful = 0 /\ failed = 0 /\ skipped = 0
    /\ lookup = "none"
    /\ info = "none"
    /\ io = <<>>
    /\ filename = <<>>
    /\ result = NoResult
    /\ reqs = <<>>
    /\ log = <<>>
    /\ n_req = 0 /\ n_sleep = 0 /\ n_calls = 0
    /\ files0 = EmptyDir
    /\ last_call = NoCall
    /\ summary = None

\* main() with --single n, for a comic the service holds (lines 246-248).
MainSingle ==
    /\ pc = "stopped"
    /\ \E n \in DOMAIN upstream :
          /\ args' = [single |-> Some(n), start |-> 1, end |-> None, max |-> None]
          /\ comic_num' = n
    /\ pc' = "crawl_comic"
    /\ n_calls' = 1
    /\ UNCHANGED <<upstream, files, exit, end, successful, failed, skipped,
                   lookup, info, io, filename, result, reqs, log, n_req,
                   n_sleep, files0, last_call, summary>>

NextNames ==
    \/ MainSingle
    \/ CrawlComicFetch

SpecNames == InitNames /\ [][NextNames]_vars

\* ------------------------------------------------- records without an image
\* A record whose img field is the empty string.
EmptyImgRecord == [img |-> Some(<<>>), safe_title |-> Some(TitleAB), alt |-> Some(AltText)]

ImgRecords == {FullRecord, NoImgRecord, EmptyImgRecord}

ImgUpstreams == [Nums -> {Some(r) : r \in ImgRecords}]

InitImg ==
    /\ upstream \in ImgUpstreams
    /\ files = EmptyDir
    /\ pc = "stopped"
    /\ exit = "none"
    /\ args = [single |-> None, start |-> 1, end |-> None, max |-> None]
    /\ end = None
    /\ comic_num = 0
    /\ successful = 0 /\ failed = 0 /\ skipped = 0
    /\ lookup = "none"
    /\ info = "none"
    /\ io = <<>>
    /\ filename = <<>>
    /\ result = NoResult
    /\ reqs = <<>>
    /\ log = <<>>
    /\ n_req = 0 /\ n_sleep = 0 /\ n_calls = 0
    /\ files0 = EmptyDir
    /\ last_call = NoCall
    /\ summary = None

\* The program over a service some of whose records have no image URL.
SpecImg == InitImg /\ [][Next]_vars

\* ----------------------------------------------------------------- claims
\* The positions inside crawl_comic after its info request.
AfterInfo == {"download_image", "iter_content", "save_metadata", "json_dump", "return"}

InRange == args.single = None /\ pc \notin {"stopped", "crawl_range"} /\ end # None

\* The content at a path, None when nothing is there.
FileAt(fs, name) == IF name \in DOMAIN fs THEN Some(fs[name]) ELSE None

\* A call that follows a call on the same number whose info request and image
\* download succeeded, and whose own info request returned the record.
SecondCall ==
    /\ pc \in AfterInfo
    /\ info = "ok"
    /\ last_call.comic_num = comic_num
    /\ last_call.info = "ok" /\ last_call.downloaded

\* C1: crawl_comic is idempotent.  A call on a number whose previous call
\* fetched the info and downloaded the image goes nowhere but to its return,
\* returns success with skipped = true, and leaves the image file and the
\* metadata file as the previous call left them.
C1_Idempotent ==
    SecondCall =>
        /\ pc = "return"
        /\ result.success /\ result.skipped
        /\ FileAt(files, filename) = FileAt(files0, filename)
        /\ FileAt(files, MetadataFile(comic_num)) = FileAt(files0, MetadataFile(comic_num))

C1_Witness ==
    /\ SecondCall /\ pc = "return" /\ result.skipped
    /\ filename \in DOMAIN files /\ MetadataFile(comic_num) \in DOMAIN files

\* C2: no per-item error aborts the range crawl.  A crawl_range run that
\* reached its loop ends only with the loop exhausted or the cap reached, no
\* exception leaves it, and every item it started is counted.
C2_ItemErrorsNeverAbort ==
    (InRange /\ pc = "exit") =>
        /\ exit = "ok"
        /\ successful + skipped + failed = n_calls
        /\ (comic_num > end[1] \/ CapReached(args.max, successful))

\* Two consecutive calls, the earlier failed by a transport error of its info
\* request, the later by a 404.
NotFoundAfterTimeout ==
    pc = "return" /\ info = "404" /\ last_call.info = "timeout"

OpenForWriting(name) ==
    \/ pc = "iter_content" /\ name = filename
    \/ pc = "json_dump" /\ name = MetadataFile(comic_num)

\* C4: every file write is complete-or-absent.  A file of the output
\* directory that no call is writing at the moment holds its complete content.
C4_CompleteOrAbsent ==
    \A name \in DOMAIN files : OpenForWriting(name) \/ Complete(files[name])

\* The cap of this crawl_range run is set and reached.
CapSetAndReached ==
    /\ InRange /\ pc # "exit"
    /\ args.max # None /\ args.max[1] > 0
    /\ successful >= args.max[1]

C6_SkipMeansNoDownload ==
    (pc = "return" /\ result.success /\ result.skipped) =>
        reqs = <<<<"info", Str(comic_num)>>>>

C6_Witness == pc = "return" /\ result.success /\ result.skipped

\* C7: when end is unset and the latest-number lookup fails, crawl_range
\* returns at once: the lookup is the only request, no item is crawled, no file
\* is written, nothing sleeps, no summary is printed and no exception escapes.
C7_LookupFailureReturns ==
    (lookup \notin {"none", "ok"}) =>
        /\ pc = "exit" /\ exit = "ok"
        /\ n_req = 1 /\ reqs = <<<<"latest">>>>
        /\ n_calls = 0 /\ n_sleep = 0
        /\ files = files0
        /\ summary = None

C7_Witness == lookup = "bad_body" /\ pc = "exit" /\ args.start <= LatestNum

\* C8: the driver sleeps after item n exactly when n < end.  While an item is
\* crawled, one sleep has followed each item before it; between items, and at
\* the end of the run, the last item crawled is followed by a sleep unless it
\* is the item numbered end.
C8_SleepBetweenItems ==
    InRange =>
        IF pc \in AfterInfo \cup {"crawl_comic"} \/ exit = "exception"
        THEN n_sleep = n_calls - 1
        ELSE n_sleep = IF n_calls > 0 /\ comic_num - 1 >= end[1]
                       THEN n_calls - 1 ELSE n_calls

C8_Witness ==
    InRange /\ pc = "loop" /\ n_calls = 2 /\ comic_num - 1 = end[1] /\ n_sleep = 1

\* The number a finished run was about, when it was about one number:
\* --single n, or a range with start = end = n and end given.
OneItemRun ==
    IF pc # "exit" THEN None
    ELSE IF args.single # None THEN args.single
    ELSE IF args.end = Some(args.start) THEN args.end
    ELSE None

\* C9: crawl_range with start = end = n does the work of crawl_comic(n).  A
\* finished --single n run and a finished range run over n alone are both the
\* one call crawl_comic(n) from the directory the process started in: the same
\* requests in the same order, the same files, the same result or exception,
\* for the same answers of the service and the disk; no latest-number lookup
\* and no sleep.
C9_RangeOfOneIsSingle ==
    OneItemRun # None =>
        LET r == CrawlComicRun(OneItemRun[1], files0, upstream, info, io) IN
        /\ n_calls = 1
        /\ reqs = r.reqs /\ n_req = Len(r.reqs) /\ lookup = "none"
        /\ files = r.files
        /\ (exit = "exception") = r.raised
        /\ result = r.result
        /\ n_sleep = 0

C9_Witness ==
    /\ OneItemRun # None /\ args.single = None
    /\ result.success /\ ~result.skipped /\ files0 # EmptyDir

\* The items of this run that crawl_comic has returned a counted result for.
Counted == IF pc \in AfterInfo \cup {"crawl_comic"} \/ exit = "exception"
           THEN n_calls - 1 ELSE n_calls

\* C10: the counters never decrease, each counted result adds one to exactly
\* one of them, and their sum is the number of items processed so far.
C10_CountersAccount ==
    /\ [](InRange => successful + skipped + failed = Counted)
    /\ [][(InRange /\ pc # "exit") =>
            /\ successful' >= successful /\ skipped' >= skipped /\ failed' >= failed
            /\ (pc = "return") =>
                  (successful' - successful) + (skipped' - skipped)
                     + (failed' - failed) = 1]_vars

C10_Witness ==
    InRange /\ pc = "loop" /\ successful = 1 /\ skipped + failed = 1

\* The file name crawl_comic derives for comic n from the record the service
\* holds for it.
NameOf(n) ==
    Filename(n, TitleOf(upstream[n][1], n), ImageUrlOf(upstream[n][1]))

\* C11: for every title and every image URL the derived file name contains
\* neither a space nor a "/".
C11_NoSpaceNoSlash ==
    (pc = "download_image") =>
        \A i \in 1..Len(filename) : filename[i] \notin {" ", "/"}

\* C12: file names never collide across items.  The name derived for a comic
\* is neither the image name nor the metadata name of the other comic, whatever
\* the two titles and image URLs are, so the existence check of one item is not
\* satisfied by a file of another.
C12_NoCollision ==
    (pc = "download_image") =>
        \A m \in (DOMAIN upstream) \ {comic_num} :
            /\ filename # NameOf(m)
            /\ filename # MetadataFile(m)

\* Two comics that differ in nothing but the number, one of them longer than
\* the padding.
C12_Witness ==
    /\ pc = "download_image" /\ comic_num = 12345
    /\ \E m \in (DOMAIN upstream) \ {comic_num} : upstream[m] = upstream[comic_num]

\* A call that has returned success with skipped = true.
ReturnedSkipped == pc = "return" /\ result.success /\ result.skipped

\* C13: a skipped item leaves the output directory unchanged.  The step that
\* finds the image file and returns skipped = true writes nothing, a call that
\* returned skipped has made that step only, and so the first call of a
\* process that returned skipped left the directory as the process found it: a
\* metadata file missing before is missing after, an existing one is as it was.
C13_SkipWritesNothing ==
    /\ [](ReturnedSkipped =>
            /\ Exists(files, filename)
            /\ (n_calls = 1 => files = files0))
    /\ [][ReturnedSkipped' => (ReturnedSkipped \/ (pc = "crawl_comic" /\ files' = files))]_vars

\* A skipped call on a number whose image file is there and whose metadata
\* file is not.
C13_Witness ==
    /\ ReturnedSkipped
    /\ filename \in DOMAIN files
    /\ MetadataFile(comic_num) \notin DOMAIN files

\* C14: with a cap m set, m any non-negative integer, the number of
\* non-skipped successes of a crawl_range run never exceeds m.
C14_CapNeverExceeded ==
    (InRange /\ args.max # None) => successful <= args.max[1]

\* The numbers of range(start, end + 1), counted.
RangeSize == IF args.start > end[1] THEN 0 ELSE end[1] - args.start + 1

\* C15: crawl_range with end known and no cap ends only after it has attempted
\* every number from start to end once, in ascending order, and it reports the
\* summary; with start > end it attempts nothing and the summary holds zeros.
C15_AttemptsWholeRange ==
    (InRange /\ args.max = None) =>
        /\ (pc \in AfterInfo \cup {"crawl_comic"}) =>
               comic_num = args.start + n_calls - 1
        /\ (pc = "exit") =>
               /\ exit = "ok"
               /\ n_calls = RangeSize
               /\ summary # None
               /\ (args.start > end[1]) => summary = Some(<<0, 0, 0>>)

\* The record the running call fetched has its img field absent or empty.
NoImage == ComicInfo.img = None \/ ComicInfo.img = Some(<<>>)

\* C16: when the img field of the info record is absent or empty, crawl_comic
\* returns a Failed result ("No image URL found"), issues no request but the
\* info request, and leaves the output directory unchanged.
C16_NoImageFails ==
    /\ []((pc \in AfterInfo /\ info = "ok" /\ NoImage) =>
            /\ pc = "return"
            /\ ~result.success /\ result.error = "No image URL found"
            /\ reqs = <<<<"info", Str(comic_num)>>>>
            /\ (n_calls = 1 => files = files0))
    /\ [][(pc = "crawl_comic" /\ info' = "ok" /\ NoImage') => files' = files]_vars

\* A call on a record with an empty img field, in a directory that holds
\* files of earlier calls.
C16_Witness ==
    /\ pc = "return" /\ info = "ok"
    /\ ComicInfo.img = Some(<<>>)
    /\ ~result.success
    /\ files # EmptyDir

\* A call on the number of the call before it, which returned Failed with
\* "Failed to download image"; its own info request returned the record.
AfterFailedDownload ==
    /\ pc = "return" /\ info = "ok"
    /\ last_call.comic_num = comic_num
    /\ ~last_call.result.success
    /\ last_call.result.error = "Failed to download image"

\* C17: an item whose download failed is not reported as skipped by the next
\* call on it: that call issues the image request again.
C17_FailedNeverSkipped ==
    AfterFailedDownload =>
        /\ ~(result.success /\ result.skipped)
        /\ reqs = <<<<"info", Str(comic_num)>>, <<"image", ImageUrl>>>>

\* The "filename" field of a metadata file's content.
FilenameField(c) == c.payload[5]

\* C18: in a run that starts from an empty output directory, whenever the
\* metadata file of an item exists, the image file named by its filename
\* field exists, and it is a completed download.
C18_MetadataImpliesImage ==
    \A n \in Nums :
        Exists(files, MetadataFile(n)) =>
            /\ files[MetadataFile(n)].kind = "metadata"
            /\ Exists(files, FilenameField(files[MetadataFile(n)]))
            /\ files[FilenameField(files[MetadataFile(n)])].kind = "image"
            /\ Complete(files[FilenameField(files[MetadataFile(n)])])

\* The metadata files of two items are there, written by two processes.
C18_Witness ==
    /\ \A n \in 1..2 : Exists(files, MetadataFile(n)) /\ Complete(files[MetadataFile(n)])
    /\ files0 # EmptyDir
====
